---- MODULE Spec2Model ----
(***************************************************************************)
(* Ledger service: POST /transaction (deposit, withdraw_request, withdraw) *)
(* over a store holding an append-only transaction log and one balance row *)
(* per account.  Every await of a handler on a store call is one step of   *)
(* the model, taken at the instant the store executes the call; requests   *)
(* are handled concurrently, one slot per request.                         *)
(*                                                                         *)
(* Transaction ids are numbers (id 0 is the id of the seeded deposit);     *)
(* created_at is the store clock `now` at the insert, and two consecutive  *)
(* inserts may share one clock value.  The caller's `timestamp` field and  *)
(* the accounts' `updated_at` are stored but never read by the code, and   *)
(* are left out.                                                           *)
(***************************************************************************)
EXTENDS Integers, Sequences, FiniteSets, TLC

\* Bounds of the model.
NReq == 2          \* number of requests submitted in one behaviour
MaxAmount == 2     \* largest amount of a submitted transaction
MaxSeed == 3       \* largest amount of the deposit processed before the behaviour starts

Slots == 1..NReq
AccountIds == {"acc1", "acc2"}
Amounts == 1..MaxAmount
TxTypes == {"deposit", "withdraw_request", "withdraw"}
\* "refund" stands for any type the switch does not recognise.
BodyTypes == TxTypes \cup {"refund"}

VARIABLES
    transactions,  \* table transactions: the log, in insertion order
    accounts,      \* table accounts: account_id -> balance, for the rows that exist
    now,           \* the store clock (source of created_at)
    req,           \* per slot: the request body
    pc,            \* per slot: where the handler is
    race,          \* per slot: settlement of Promise.race([check, timeout])
    chk,           \* per slot: the checkAndReserveBalance call (runs on after a timeout);
                   \*   via records which path decided: "rpc" or "fallback"
    loc,           \* per slot: the handler's locals
    ins,           \* per slot: what the handler's insertTransaction did
    resp           \* per slot: HTTP status sent (0: none yet)

vars == <<transactions, accounts, now, req, pc, race, chk, loc, ins, resp>>

HasId(txs, id) == \E i \in 1..Len(txs) : txs[i].id = id

(***************************************************************************)
(* Store operations (db.ts) and the SQL function check_withdraw_request.   *)
(***************************************************************************)

\* Mutant: the log without its primary key on id.
insertTransactionNoKey(txs, t, createdAt) ==
    Append(txs, [id |-> t.id, type |-> t.type, amount |-> t.amount,
                 account_id |-> t.accountId, created_at |-> createdAt])

\* INSERT into transactions; error 23505 (duplicate id) is swallowed.
insertTransaction(txs, t, createdAt) ==
    IF HasId(txs, t.id)
    THEN txs
    ELSE Append(txs, [id |-> t.id, type |-> t.type, amount |-> t.amount,
                      account_id |-> t.accountId, created_at |-> createdAt])

\* Mutant: a missing row is not mapped to 0.
getAccountBalanceNoRow(accts, accountId) ==
    IF accountId \in DOMAIN accts THEN accts[accountId] ELSE -1

\* SELECT balance ... .single(); PGRST116 (no row) and a falsy balance give 0.
getAccountBalance(accts, accountId) ==
    IF accountId \in DOMAIN accts THEN accts[accountId] ELSE 0

\* Mutant: the update is not restricted to the account's row.
updateAccountBalanceAll(accts, accountId, newBalance) ==
    [a \in (DOMAIN accts) \cup {accountId} |-> newBalance]

\* upsert of the account row on account_id.
updateAccountBalance(accts, accountId, newBalance) ==
    [a \in (DOMAIN accts) \cup {accountId} |->
        IF a = accountId THEN newBalance ELSE accts[a]]

\* Mutant: a withdraw is credited like a deposit.
newBalanceForCredit(type, currentBalance, amount) == currentBalance + amount

\* The value incrementAccountBalance / decrementAccountBalance writes.
newBalanceFor(type, currentBalance, amount) ==
    IF type = "deposit" THEN currentBalance + amount ELSE currentBalance - amount

\* check_withdraw_request, lines 88-99: the account row is created at 0 if absent.
\* Mutant: the check debits the requested amount when it approves.
lockAccountRowDebit(accts, accountId, approved, amount) ==
    IF approved
    THEN updateAccountBalance(accts, accountId, getAccountBalance(accts, accountId) - amount)
    ELSE accts

lockAccountRow(accts, accountId, approved, amount) ==
    IF accountId \in DOMAIN accts THEN accts
    ELSE updateAccountBalance(accts, accountId, 0)

\* check_withdraw_request, lines 104-114: the NOT EXISTS subquery.
hasLaterWithdraw(txs, i) ==
    \E j \in 1..Len(txs) :
        /\ txs[j].account_id = txs[i].account_id
        /\ txs[j].type = "withdraw"
        /\ txs[j].created_at >= txs[i].created_at

RECURSIVE sqlPendingAmount(_, _)
sqlPendingAmount(txs, i) ==
    IF i = 0 THEN 0
    ELSE sqlPendingAmount(txs, i - 1)
         + (IF txs[i].type = "withdraw_request" /\ ~hasLaterWithdraw(txs, i)
            THEN txs[i].amount ELSE 0)

v_pending_amount(txs, accountId) ==
    sqlPendingAmount(SelectSeq(txs, LAMBDA t : t.account_id = accountId),
                     Len(SelectSeq(txs, LAMBDA t : t.account_id = accountId)))

\* Mutant: the boundary excluded.
check_withdraw_request_strict(accts, txs, accountId, requestedAmount) ==
    getAccountBalance(accts, accountId) - v_pending_amount(txs, accountId) > requestedAmount

check_withdraw_request(accts, txs, accountId, requestedAmount) ==
    getAccountBalance(accts, accountId) - v_pending_amount(txs, accountId) >= requestedAmount

\* created_at as the client receives it: the column is a TIMESTAMPTZ and arrives as
\* an ISO 8601 string, "...:SS[.fraction]+00:00", the fraction printed without its
\* trailing zeros and left out when it is zero.  The date, hour and minute are
\* the same for all rows of a behaviour and are left out, as is the offset after
\* its sign; one tick of the store clock is 50 ms.  A string is the sequence of
\* its character codes ('+' 43, '.' 46, '0'..'9' 48..57).
createdAtText(createdAt) ==
    LET hundredths == 5 * createdAt
        s == hundredths \div 100
        f == hundredths % 100
        seconds == <<48 + (s \div 10), 48 + (s % 10)>>
        fraction == IF f = 0 THEN <<>>
                    ELSE IF f % 10 = 0 THEN <<46, 48 + (f \div 10)>>
                    ELSE <<46, 48 + (f \div 10), 48 + (f % 10)>>
    IN seconds \o fraction \o <<43>>

\* The two selects of the fallback: columns id, amount, created_at of the rows of
\* one account and one type, ordered by created_at ascending (the log is in
\* created_at order).
selectRows(txs, accountId, type) ==
    LET rows == SelectSeq(txs, LAMBDA t : t.account_id = accountId /\ t.type = type)
    IN [k \in 1..Len(rows) |->
           [id |-> rows[k].id, amount |-> rows[k].amount,
            created_at |-> createdAtText(rows[k].created_at)]]

\* JavaScript's >= on two strings: comparison by character codes, a proper prefix
\* being the smaller.
RECURSIVE stringGE(_, _)
stringGE(s, t) ==
    IF t = <<>> THEN TRUE
    ELSE IF s = <<>> THEN FALSE
    ELSE IF Head(s) # Head(t) THEN Head(s) > Head(t)
    ELSE stringGE(Tail(s), Tail(t))

\* Mutant: only a withdraw strictly after the request corresponds to it.
hasCorrespondingWithdrawAfter(withdraws, request) ==
    \E k \in 1..Len(withdraws) :
        /\ withdraws[k].created_at # request.created_at
        /\ stringGE(withdraws[k].created_at, request.created_at)

\* withdraws?.some(w => w.created_at && request.created_at
\*                      && w.created_at >= request.created_at)
hasCorrespondingWithdraw(withdraws, request) ==
    \E k \in 1..Len(withdraws) :
        /\ withdraws[k].created_at # <<>>
        /\ request.created_at # <<>>
        /\ stringGE(withdraws[k].created_at, request.created_at)

RECURSIVE pendingAmount(_, _)
pendingAmount(withdrawRequests, withdraws) ==
    IF withdrawRequests = <<>> THEN 0
    ELSE (IF hasCorrespondingWithdraw(withdraws, Head(withdrawRequests))
          THEN 0 ELSE Head(withdrawRequests).amount)
         + pendingAmount(Tail(withdrawRequests), withdraws)

checkAndReserveBalanceFallback(currentBalance, withdrawRequests, withdraws, requestedAmount) ==
    currentBalance - pendingAmount(withdrawRequests, withdraws) >= requestedAmount

\* Mutant: the last promise to settle decides.
raceSettleLast(state, outcome) == outcome

\* Promise.race: the first promise to settle decides, later ones are ignored.
raceSettle(state, outcome) == IF state = "pending" THEN outcome ELSE state

\* Status of a decided withdraw_request.
statusOf(approved) == IF approved THEN 201 ELSE 402

(***************************************************************************)
(* Initial states: a fresh store; the store after one deposit (id 0) on    *)
(* acc1 has been processed; or the store after that deposit and then one   *)
(* approved withdraw_request (id -1) on acc1 have been processed.          *)
(***************************************************************************)
NoReq == [id |-> 0, type |-> "none", amount |-> 0, accountId |-> "acc1"]
ChkOff == [pc |-> "off", via |-> "rpc", currentBalance |-> 0,
           withdrawRequests |-> <<>>, data |-> FALSE]
\* written records that the handler's updateAccountBalance has taken effect.
LocInit == [currentBalance |-> 0, approved |-> FALSE, written |-> FALSE]

SeedDeposit(b) == [id |-> 0, type |-> "deposit", amount |-> b,
                   account_id |-> "acc1", created_at |-> 0]
SeedRequest(p) == [id |-> -1, type |-> "withdraw_request", amount |-> p,
                   account_id |-> "acc1", created_at |-> 1]

Init ==
    /\ \/ transactions = <<>> /\ accounts = << >>
       \/ \E b \in 1..MaxSeed :
            /\ accounts = [a \in {"acc1"} |-> b]
            /\ \/ transactions = <<SeedDeposit(b)>>
               \/ \E p \in Amounts :
                    p <= b /\ transactions = <<SeedDeposit(b), SeedRequest(p)>>
    /\ now = 1
    /\ req = [r \in Slots |-> NoReq]
    /\ pc = [r \in Slots |-> "idle"]
    /\ race = [r \in Slots |-> "none"]
    /\ chk = [r \in Slots |-> ChkOff]
    /\ loc = [r \in Slots |-> LocInit]
    /\ ins = [r \in Slots |-> "none"]
    /\ resp = [r \in Slots |-> 0]

\* A slot is quiescent when neither its handler nor its check has a step left.
Quiescent(r) ==
    /\ pc[r] \in {"idle", "done"}
    /\ chk[r].pc \in {"off", "resolved", "rejected"}

(***************************************************************************)
(* POST /transaction                                                       *)
(***************************************************************************)

\* Mutant: an unrecognised type falls through to the deposit/withdraw path.
SubmitNoDefault(r, t) ==
    /\ pc[r] = "idle"
    /\ \A q \in Slots : q < r => pc[q] # "idle"
    /\ req' = [req EXCEPT ![r] = t]
    /\ \/ /\ t.type # "withdraw_request"
          /\ pc' = [pc EXCEPT ![r] = "insert"]
          /\ UNCHANGED <<race, chk, resp>>
       \/ /\ t.type = "withdraw_request"
          /\ pc' = [pc EXCEPT ![r] = "race"]
          /\ race' = [race EXCEPT ![r] = "pending"]
          /\ chk' = [chk EXCEPT ![r].pc = "rpc"]
          /\ UNCHANGED resp
    /\ UNCHANGED <<transactions, accounts, now, loc, ins>>

\* The handler up to its first await.  Slots are numbered in order of arrival.
Submit(r, t) ==
    /\ pc[r] = "idle"
    /\ \A q \in Slots : q < r => pc[q] # "idle"
    /\ req' = [req EXCEPT ![r] = t]
    /\ \/ /\ t.type \in {"deposit", "withdraw"}
          /\ pc' = [pc EXCEPT ![r] = "insert"]
          /\ UNCHANGED <<race, chk, resp>>
       \/ /\ t.type = "withdraw_request"
          /\ pc' = [pc EXCEPT ![r] = "race"]
          /\ race' = [race EXCEPT ![r] = "pending"]
          /\ chk' = [chk EXCEPT ![r].pc = "rpc"]
          /\ UNCHANGED resp
       \/ /\ t.type \notin TxTypes
          /\ pc' = [pc EXCEPT ![r] = "done"]
          /\ resp' = [resp EXCEPT ![r] = 400]
          /\ UNCHANGED <<race, chk>>
    /\ UNCHANGED <<transactions, accounts, now, loc, ins>>

\* Mutant: the handler goes on to the balance without the append having happened.
InsertSkipped(r) ==
    /\ pc[r] = "insert"
    /\ pc' = [pc EXCEPT ![r] = "bal_read"]
    /\ UNCHANGED <<transactions, accounts, now, req, race, chk, loc, ins, resp>>

\* await insertTransaction(transaction), deposit and withdraw.
Insert(r) ==
    /\ pc[r] = "insert"
    /\ \E createdAt \in {now, now + 1} :
          /\ now' = createdAt
          /\ transactions' = insertTransaction(transactions, req[r], createdAt)
    /\ ins' = [ins EXCEPT ![r] =
                  IF HasId(transactions, req[r].id) THEN "already_exists" ELSE "inserted"]
    /\ pc' = [pc EXCEPT ![r] = "bal_read"]
    /\ UNCHANGED <<accounts, req, race, chk, loc, resp>>

\* incrementAccountBalance / decrementAccountBalance: getAccountBalance.
BalRead(r) ==
    /\ pc[r] = "bal_read"
    /\ loc' = [loc EXCEPT ![r].currentBalance = getAccountBalance(accounts, req[r].accountId)]
    /\ pc' = [pc EXCEPT ![r] = "bal_write"]
    /\ UNCHANGED <<transactions, accounts, now, req, race, chk, ins, resp>>

\* incrementAccountBalance / decrementAccountBalance: updateAccountBalance.
BalWrite(r) ==
    /\ pc[r] = "bal_write"
    /\ accounts' = updateAccountBalance(accounts, req[r].accountId,
                      newBalanceFor(req[r].type, loc[r].currentBalance, req[r].amount))
    /\ loc' = [loc EXCEPT ![r].currentBalance = 0, ![r].written = TRUE]
    /\ pc' = [pc EXCEPT ![r] = "log_read"]
    /\ UNCHANGED <<transactions, now, req, race, chk, ins, resp>>

\* const newBalance = await getAccountBalance(...); res.status(200).end().
Applied(r) ==
    /\ pc[r] = "log_read"
    /\ pc' = [pc EXCEPT ![r] = "done"]
    /\ resp' = [resp EXCEPT ![r] = 200]
    /\ UNCHANGED <<transactions, accounts, now, req, race, chk, loc, ins>>

\* A store call of the handler fails: the outer catch answers 500.
StoreError(r) ==
    /\ pc[r] \in {"insert", "bal_read", "bal_write", "log_read", "wr_read", "wr_insert"}
    /\ pc' = [pc EXCEPT ![r] = "done"]
    /\ resp' = [resp EXCEPT ![r] = 500]
    /\ UNCHANGED <<transactions, accounts, now, req, race, chk, loc, ins>>

\* checkAndReserveBalance: the rpc executes check_withdraw_request atomically.
CheckRpc(r) ==
    /\ chk[r].pc = "rpc"
    /\ LET approved == check_withdraw_request(accounts, transactions,
                                              req[r].accountId, req[r].amount)
       IN /\ accounts' = lockAccountRow(accounts, req[r].accountId, approved, req[r].amount)
          /\ chk' = [chk EXCEPT ![r].pc = "resolved", ![r].data = approved]
    /\ race' = [race EXCEPT ![r] = raceSettle(race[r], "value")]
    /\ UNCHANGED <<transactions, now, req, pc, loc, ins, resp>>

\* The rpc returns an error (of any kind): the fallback is used.
CheckRpcError(r) ==
    /\ chk[r].pc = "rpc"
    /\ chk' = [chk EXCEPT ![r].pc = "fb_balance", ![r].via = "fallback"]
    /\ UNCHANGED <<transactions, accounts, now, req, pc, race, loc, ins, resp>>

\* Fallback: const currentBalance = await getAccountBalance(accountId).
FallbackBalance(r) ==
    /\ chk[r].pc = "fb_balance"
    /\ chk' = [chk EXCEPT ![r].pc = "fb_requests",
                          ![r].currentBalance = getAccountBalance(accounts, req[r].accountId)]
    /\ UNCHANGED <<transactions, accounts, now, req, pc, race, loc, ins, resp>>

\* Fallback: select of the account's withdraw_request rows.
FallbackRequests(r) ==
    /\ chk[r].pc = "fb_requests"
    /\ chk' = [chk EXCEPT ![r].pc = "fb_withdraws",
                          ![r].withdrawRequests =
                              selectRows(transactions, req[r].accountId, "withdraw_request")]
    /\ UNCHANGED <<transactions, accounts, now, req, pc, race, loc, ins, resp>>

\* Mutant: the fallback reserves the amount it approves by debiting the balance.
FallbackWithdrawsReserving(r) ==
    /\ chk[r].pc = "fb_withdraws"
    /\ LET approved == checkAndReserveBalanceFallback(
                           chk[r].currentBalance, chk[r].withdrawRequests,
                           selectRows(transactions, req[r].accountId, "withdraw"),
                           req[r].amount)
       IN /\ chk' = [chk EXCEPT ![r].pc = "resolved",
                                ![r].currentBalance = 0,
                                ![r].withdrawRequests = <<>>,
                                ![r].data = approved]
          /\ accounts' = IF approved
                         THEN updateAccountBalance(accounts, req[r].accountId,
                                  getAccountBalance(accounts, req[r].accountId)
                                      - req[r].amount)
                         ELSE accounts
    /\ race' = [race EXCEPT ![r] = raceSettle(race[r], "value")]
    /\ UNCHANGED <<transactions, now, req, pc, loc, ins, resp>>

\* Fallback: select of the account's withdraw rows, then the decision.
FallbackWithdraws(r) ==
    /\ chk[r].pc = "fb_withdraws"
    /\ chk' = [chk EXCEPT ![r].pc = "resolved",
                          ![r].currentBalance = 0,
                          ![r].withdrawRequests = <<>>,
                          ![r].data = checkAndReserveBalanceFallback(
                              chk[r].currentBalance, chk[r].withdrawRequests,
                              selectRows(transactions, req[r].accountId, "withdraw"),
                              req[r].amount)]
    /\ race' = [race EXCEPT ![r] = raceSettle(race[r], "value")]
    /\ UNCHANGED <<transactions, accounts, now, req, pc, loc, ins, resp>>

\* A store call of the fallback fails: checkAndReserveBalance rejects.
CheckError(r) ==
    /\ chk[r].pc \in {"fb_balance", "fb_requests", "fb_withdraws"}
    /\ chk' = [chk EXCEPT ![r].pc = "rejected", ![r].currentBalance = 0,
                          ![r].withdrawRequests = <<>>]
    /\ race' = [race EXCEPT ![r] = raceSettle(race[r], "error")]
    /\ UNCHANGED <<transactions, accounts, now, req, pc, loc, ins, resp>>

\* setTimeout(() => reject(new Error("Timeout")), 3000) fires.
Timeout(r) ==
    /\ pc[r] = "race"
    /\ race[r] = "pending"
    /\ race' = [race EXCEPT ![r] = raceSettle(race[r], "timeout")]
    /\ UNCHANGED <<transactions, accounts, now, req, pc, chk, loc, ins, resp>>

\* Mutant: a timeout is treated like an approval.
AfterRaceFailOpen(r) ==
    /\ pc[r] = "race"
    /\ \/ /\ race[r] = "value"
          /\ loc' = [loc EXCEPT ![r].approved = chk[r].data]
          /\ pc' = [pc EXCEPT ![r] = "wr_read"]
       \/ /\ race[r] = "timeout"
          /\ loc' = [loc EXCEPT ![r].approved = TRUE]
          /\ pc' = [pc EXCEPT ![r] = "wr_read"]
    /\ UNCHANGED <<transactions, accounts, now, req, race, chk, ins, resp>>

\* Mutant: a failed check is treated like an approval.
AfterRaceErrorApproves(r) ==
    /\ pc[r] = "race"
    /\ \/ /\ race[r] = "value"
          /\ loc' = [loc EXCEPT ![r].approved = chk[r].data]
          /\ pc' = [pc EXCEPT ![r] = "wr_read"]
          /\ UNCHANGED resp
       \/ /\ race[r] = "timeout"
          /\ pc' = [pc EXCEPT ![r] = "done"]
          /\ resp' = [resp EXCEPT ![r] = 402]
          /\ UNCHANGED loc
       \/ /\ race[r] = "error"
          /\ loc' = [loc EXCEPT ![r].approved = TRUE]
          /\ pc' = [pc EXCEPT ![r] = "wr_read"]
          /\ UNCHANGED resp
    /\ UNCHANGED <<transactions, accounts, now, req, race, chk, ins>>

\* The handler resumes after await Promise.race([...]).
AfterRace(r) ==
    /\ pc[r] = "race"
    /\ \/ /\ race[r] = "value"
          /\ loc' = [loc EXCEPT ![r].approved = chk[r].data]
          /\ pc' = [pc EXCEPT ![r] = "wr_read"]
          /\ UNCHANGED resp
       \/ /\ race[r] = "timeout"
          /\ pc' = [pc EXCEPT ![r] = "done"]
          /\ resp' = [resp EXCEPT ![r] = 402]
          /\ UNCHANGED loc
       \/ /\ race[r] = "error"
          /\ pc' = [pc EXCEPT ![r] = "done"]
          /\ resp' = [resp EXCEPT ![r] = 500]
          /\ UNCHANGED loc
    /\ UNCHANGED <<transactions, accounts, now, req, race, chk, ins>>

\* const currentBalance = await getAccountBalance(...), read for the log line only.
RequestRead(r) ==
    /\ pc[r] = "wr_read"
    /\ pc' = [pc EXCEPT ![r] = "wr_insert"]
    /\ UNCHANGED <<transactions, accounts, now, req, race, chk, loc, ins, resp>>

\* Mutant: only an approved request is appended.
RequestInsertApprovedOnly(r) ==
    /\ pc[r] = "wr_insert"
    /\ \E createdAt \in {now, now + 1} :
          /\ now' = createdAt
          /\ transactions' = IF loc[r].approved
                             THEN insertTransaction(transactions, req[r], createdAt)
                             ELSE transactions
    /\ ins' = [ins EXCEPT ![r] =
                  IF ~loc[r].approved THEN "none"
                  ELSE IF HasId(transactions, req[r].id) THEN "already_exists"
                  ELSE "inserted"]
    /\ pc' = [pc EXCEPT ![r] = "done"]
    /\ resp' = [resp EXCEPT ![r] = statusOf(loc[r].approved)]
    /\ UNCHANGED <<accounts, req, race, chk, loc>>

\* await insertTransaction(transaction) in either branch, then 201 or 402.
RequestInsert(r) ==
    /\ pc[r] = "wr_insert"
    /\ \E createdAt \in {now, now + 1} :
          /\ now' = createdAt
          /\ transactions' = insertTransaction(transactions, req[r], createdAt)
    /\ ins' = [ins EXCEPT ![r] =
                  IF HasId(transactions, req[r].id) THEN "already_exists" ELSE "inserted"]
    /\ pc' = [pc EXCEPT ![r] = "done"]
    /\ resp' = [resp EXCEPT ![r] = statusOf(loc[r].approved)]
    /\ UNCHANGED <<accounts, req, race, chk, loc>>

Bodies(r) ==
    [id : 0..r, type : BodyTypes, amount : Amounts, accountId : AccountIds]

Step(r) ==
    \/ Insert(r)
    \/ BalRead(r)
    \/ BalWrite(r)
    \/ Applied(r)
    \/ StoreError(r)
    \/ CheckRpc(r)
    \/ CheckRpcError(r)
    \/ FallbackBalance(r)
    \/ FallbackRequests(r)
    \/ FallbackWithdraws(r)
    \/ CheckError(r)
    \/ Timeout(r)
    \/ AfterRace(r)
    \/ RequestRead(r)
    \/ RequestInsert(r)

Next ==
    \/ \E r \in Slots : \E t \in Bodies(r) : Submit(r, t)
    \/ \E r \in Slots : Step(r)

Spec == Init /\ [][Next]_vars

\* Requests processed one at a time: a request arrives only when no other is in flight.
NextSeq ==
    \/ \E r \in Slots : \E t \in Bodies(r) :
          (\A q \in Slots : Quiescent(q)) /\ Submit(r, t)
    \/ \E r \in Slots : Step(r)

SpecSeq == Init /\ [][NextSeq]_vars

(***************************************************************************)
(* GET /account/:accountId                                                 *)
(***************************************************************************)

\* The handler is one read of the store and changes nothing: the response it sends
\* when the read succeeds, as a function of the store at the instant of the read
\* (a failing read is answered 500).
GetAccount(accts, accountId) ==
    [status |-> 200, accountId |-> accountId,
     balance |-> getAccountBalance(accts, accountId)]

(***************************************************************************)
(* Vocabulary of the properties.                                           *)
(***************************************************************************)

Balance(a) == getAccountBalance(accounts, a)

\* A logged withdraw_request is unresolved while no withdraw of its account has
\* created_at at or after its own.
Unresolved(txs, i) ==
    /\ txs[i].type = "withdraw_request"
    /\ \A j \in 1..Len(txs) :
          (txs[j].type = "withdraw" /\ txs[j].account_id = txs[i].account_id)
              => txs[j].created_at < txs[i].created_at

RECURSIVE SumOver(_, _)
SumOver(txs, S) ==
    IF S = {} THEN 0
    ELSE LET i == CHOOSE x \in S : TRUE IN txs[i].amount + SumOver(txs, S \ {i})

PendingSum(txs, a) ==
    SumOver(txs, {i \in 1..Len(txs) : txs[i].account_id = a /\ Unresolved(txs, i)})

IsRequest(r) == req[r].type = "withdraw_request"
IsMutation(r) == req[r].type \in {"deposit", "withdraw"}

\* The slot that arrived last.
Latest(r) == pc[r] # "idle" /\ \A q \in Slots : q > r => pc[q] = "idle"

\* The log as it was before slot r's own append.
LogBefore(r) ==
    IF ins[r] = "inserted" /\ transactions # <<>>
         /\ transactions[Len(transactions)].id = req[r].id
    THEN SubSeq(transactions, 1, Len(transactions) - 1)
    ELSE transactions

\* B - P of slot r's account before r's own append.
AvailableBefore(r) ==
    Balance(req[r].accountId) - PendingSum(LogBefore(r), req[r].accountId)

\* The balance the seeded deposit left on an account.
InitialBalance(a) ==
    IF a = "acc1" /\ transactions # <<>> /\ transactions[1].created_at = 0
    THEN transactions[1].amount ELSE 0

RECURSIVE NetOfSlots(_, _)
NetOfSlots(S, a) ==
    IF S = {} THEN 0
    ELSE LET r == CHOOSE x \in S : TRUE
         IN (IF req[r].accountId # a THEN 0
             ELSE IF req[r].type = "deposit" THEN req[r].amount
             ELSE IF req[r].type = "withdraw" THEN 0 - req[r].amount
             ELSE 0)
            + NetOfSlots(S \ {r}, a)

\* Slot r's handler or check takes a step.
Moves(r) == pc'[r] # pc[r] \/ chk'[r] # chk[r] \/ race'[r] # race[r]

(***************************************************************************)
(* C1.  Reservation rule, requests processed one at a time (SpecSeq).      *)
(***************************************************************************)

\* C1 as stated: a withdraw_request processed with no other request in flight is
\* answered 201 if and only if B - P >= A, and 402 if B - P < A.
C1_AsStated ==
    \A r \in Slots :
        (IsRequest(r) /\ Latest(r) /\ pc[r] = "done") =>
            /\ (resp[r] = 201) <=> (AvailableBefore(r) >= req[r].amount)
            /\ (AvailableBefore(r) < req[r].amount) => resp[r] = 402

\* C1 amended: a withdraw_request processed with no other request in flight, whose
\* check settles the race (the timer has not fired first, the check has not failed)
\* and whose later store calls do not fail, is answered 201 if and only if
\* B - P >= A and 402 otherwise; and no request is answered 201 when B - P < A.
C1_ReservationRule ==
    \A r \in Slots :
        (IsRequest(r) /\ Latest(r) /\ pc[r] = "done") =>
            /\ (race[r] = "value" /\ resp[r] # 500) =>
                  /\ (resp[r] = 201) <=> (AvailableBefore(r) >= req[r].amount)
                  /\ (resp[r] = 402) <=> (AvailableBefore(r) < req[r].amount)
            /\ resp[r] = 201 => AvailableBefore(r) >= req[r].amount

\* A request approved on the boundary B - P = A with P > 0.
C1_Witness ==
    \E r \in Slots :
        /\ IsRequest(r) /\ Latest(r) /\ pc[r] = "done"
        /\ race[r] = "value" /\ resp[r] = 201
        /\ PendingSum(LogBefore(r), req[r].accountId) > 0
        /\ AvailableBefore(r) = req[r].amount

(***************************************************************************)
(* C2.  Race property on the rpc path (Spec).                              *)
(***************************************************************************)

\* The scenario of C2: the store held the seeded balance and no request; all NReq
\* slots are withdraw_requests of one amount on acc1 with distinct new ids, each
\* decided by the rpc; the balance covers NReq - 1 of them and not NReq.
C2_Scenario ==
    /\ Len(transactions) >= 1
    /\ transactions[1] = SeedDeposit(Balance("acc1"))
    /\ \A i \in 1..Len(transactions) : transactions[i].id # -1
    /\ \A r \in Slots :
          /\ pc[r] = "done" /\ IsRequest(r) /\ req[r].accountId = "acc1"
          /\ race[r] = "value" /\ chk[r].via = "rpc" /\ ins[r] = "inserted"
          /\ resp[r] \in {201, 402}
          /\ req[r].amount = req[1].amount
    /\ (NReq - 1) * req[1].amount <= Balance("acc1")
    /\ Balance("acc1") < NReq * req[1].amount

\* C2: N concurrent withdraw_requests of amount A on a balance B with
\* (N-1)*A <= B < N*A end with exactly N-1 approved and exactly 1 denied.
C2_RaceProperty ==
    C2_Scenario =>
        /\ Cardinality({r \in Slots : resp[r] = 201}) = NReq - 1
        /\ Cardinality({r \in Slots : resp[r] = 402}) = 1

(***************************************************************************)
(* C3.  No lost update (Spec).                                             *)
(***************************************************************************)

\* C3: once deposits and withdraws with pairwise distinct ids have all completed
\* without store error, each balance is the initial balance plus the deposits
\* minus the withdraws.
C3_NoLostUpdate ==
    (\A r \in Slots : pc[r] = "done" /\ IsMutation(r) /\ resp[r] = 200
                        /\ ins[r] = "inserted")
        => \A a \in AccountIds : Balance(a) = InitialBalance(a) + NetOfSlots(Slots, a)

(***************************************************************************)
(* C4.  Idempotent balance effect.                                         *)
(***************************************************************************)

\* C4: a deposit or withdraw whose id is already in the log leaves every balance
\* as it was (and is answered 200).
C4_IdempotentBalance ==
    [][ \A r \in Slots :
            (IsMutation(r) /\ ins[r] = "already_exists" /\ Moves(r)) =>
                /\ \A a \in AccountIds :
                      getAccountBalance(accounts', a) = getAccountBalance(accounts, a)
                /\ resp'[r] \in {0, 200, 500} ]_vars

(***************************************************************************)
(* C5.  One immutable log entry per id.                                    *)
(***************************************************************************)

UniqueIds ==
    \A i, j \in 1..Len(transactions) :
        transactions[i].id = transactions[j].id => i = j

\* C5: the log never holds two entries with one id; an entry once written is never
\* modified or removed; an insert whose id is already present changes nothing and
\* the handler carries on without error.
C5_LogImmutable ==
    /\ [] UniqueIds
    /\ [][ /\ Len(transactions') >= Len(transactions)
           /\ \A i \in 1..Len(transactions) : transactions'[i] = transactions[i]
           /\ \A r \in Slots :
                 (ins[r] = "none" /\ ins'[r] # "none" /\ HasId(transactions, req[r].id)) =>
                     /\ transactions' = transactions
                     /\ ins'[r] = "already_exists"
                     /\ resp'[r] # 500 ]_vars

\* Two slots appended one id with different contents: one insert took effect, the
\* other was a no-op.
C5_Witness ==
    \E r, q \in Slots :
        /\ r # q /\ req[r].id = req[q].id
        /\ ins[r] = "inserted" /\ ins[q] = "already_exists"
        /\ req[r].type # req[q].type
        /\ req[r].amount # req[q].amount
        /\ req[r].accountId # req[q].accountId
        /\ pc[q] = "done" /\ resp[q] # 500

(***************************************************************************)
(* C6.  Fail-closed timeout (Spec).                                        *)
(***************************************************************************)

\* C6: a withdraw_request whose timer fired before its check completed is never
\* answered 201, and once answered it is answered 402.
C6_FailClosed ==
    \A r \in Slots :
        race[r] = "timeout" =>
            /\ resp[r] # 201
            /\ pc[r] = "done" => resp[r] = 402

\* A timed-out request answered 402 whose check later returned an approval.
C6_Witness ==
    \E r \in Slots :
        /\ race[r] = "timeout" /\ resp[r] = 402
        /\ chk[r].pc = "resolved" /\ chk[r].data = TRUE

(***************************************************************************)
(* C7.  Timed-out requests are audited (Spec).                             *)
(***************************************************************************)

\* C7: a withdraw_request denied because its check timed out is in the log.
C7_TimeoutAudited ==
    \A r \in Slots :
        (race[r] = "timeout" /\ resp[r] = 402) => HasId(transactions, req[r].id)

(***************************************************************************)
(* C8.  Decided requests are audited (Spec).                               *)
(***************************************************************************)

\* C8: a withdraw_request answered 201, or 402 on a denial returned by the check,
\* has an entry with its id in the log from the moment it is answered.
C8_DecidedAudited ==
    \A r \in Slots :
        (IsRequest(r) /\ (resp[r] = 201 \/ (resp[r] = 402 /\ race[r] = "value")))
            => HasId(transactions, req[r].id)

\* A denied request whose own entry was appended.
C8_Witness ==
    \E r \in Slots :
        /\ IsRequest(r) /\ resp[r] = 402 /\ race[r] = "value"
        /\ ins[r] = "inserted"

(***************************************************************************)
(* C9.  A withdraw_request never moves money (Spec).                       *)
(***************************************************************************)

\* C9: no step of a withdraw_request changes the balance of any account, and a
\* balance changes only in the balance write of a deposit or a withdraw.
C9_RequestFrame ==
    [][ \A a \in AccountIds :
            getAccountBalance(accounts', a) # getAccountBalance(accounts, a) =>
                /\ \A r \in Slots : IsRequest(r) => ~Moves(r)
                /\ \E r \in Slots :
                      /\ IsMutation(r) /\ req[r].accountId = a
                      /\ pc[r] = "bal_write" /\ pc'[r] = "log_read" ]_vars

\* An approved request on an account that holds money, after which the balance
\* is still what the seeded deposit left.
C9_Witness ==
    \E r \in Slots :
        /\ IsRequest(r) /\ resp[r] = 201 /\ chk[r].via = "rpc"
        /\ \A q \in Slots : ~IsMutation(q)
        /\ Balance(req[r].accountId) > 0
        /\ Balance(req[r].accountId) = InitialBalance(req[r].accountId)

(***************************************************************************)
(* C10.  Withdraw is not gated (Spec).                                     *)
(***************************************************************************)

\* C10: a withdraw with a new id is appended to the log and its balance write
\* decreases the account's balance by exactly its amount.
C10_WithdrawApplies ==
    [][ \A r \in Slots :
            (req[r].type = "withdraw" /\ ins[r] = "inserted"
               /\ pc[r] = "bal_write" /\ pc'[r] = "log_read") =>
                /\ HasId(transactions, req[r].id)
                /\ getAccountBalance(accounts', req[r].accountId)
                      = getAccountBalance(accounts, req[r].accountId) - req[r].amount ]_vars
(***************************************************************************)
(* C11.  Unrecognised transaction types (Spec).                            *)
(***************************************************************************)

\* C11: a POST whose type is none of deposit, withdraw_request, withdraw is answered
\* 400 in the step that receives it, and that step leaves the log and every balance
\* as they were; its handler makes no store call afterwards (no check is started,
\* nothing is inserted, the slot is done).
C11_UnknownTypeRejected ==
    /\ [][ \A r \in Slots :
              (pc[r] = "idle" /\ pc'[r] # "idle" /\ req'[r].type \notin TxTypes) =>
                  /\ resp'[r] = 400
                  /\ transactions' = transactions
                  /\ accounts' = accounts
                  /\ now' = now ]_vars
    /\ [](\A r \in Slots :
              (pc[r] # "idle" /\ req[r].type \notin TxTypes) =>
                  /\ pc[r] = "done" /\ resp[r] = 400
                  /\ chk[r] = ChkOff /\ race[r] = "none" /\ ins[r] = "none")

\* An unrecognised type rejected while the store holds a log and a balance, after
\* which another request was still served.
C11_Witness ==
    \E r, q \in Slots :
        /\ r < q
        /\ req[r].type \notin TxTypes /\ pc[r] = "done" /\ resp[r] = 400
        /\ transactions # <<>> /\ Balance(req[r].accountId) > 0
        /\ resp[q] = 200

(***************************************************************************)
(* C12.  Only approved requests reserve funds (SpecSeq).                   *)
(***************************************************************************)

\* The log row of a withdraw_request that was answered 402 by its decision.
DeniedRow(txs, i) ==
    \E q \in Slots :
        /\ IsRequest(q) /\ ins[q] = "inserted" /\ req[q].id = txs[i].id
        /\ ~loc[q].approved

\* Sum of the unresolved withdraw_requests of account a that were approved.
ApprovedPendingSum(txs, a) ==
    SumOver(txs, {i \in 1..Len(txs) :
                    /\ txs[i].account_id = a
                    /\ Unresolved(txs, i)
                    /\ ~DeniedRow(txs, i)})

\* C12: the pending amount a decision subtracts from the balance is the sum of the
\* unresolved APPROVED withdraw_requests only: a request decided by its check, with
\* no other request in flight, is approved if and only if the balance minus the
\* unresolved approved requests covers its amount; denied requests recorded in the
\* log do not count.
C12_OnlyApprovedReserve ==
    \A r \in Slots :
        (IsRequest(r) /\ Latest(r) /\ pc[r] = "done" /\ race[r] = "value"
            /\ resp[r] # 500) =>
            ((resp[r] = 201) <=>
                (Balance(req[r].accountId)
                    - ApprovedPendingSum(LogBefore(r), req[r].accountId)
                 >= req[r].amount))

(***************************************************************************)
(* C13.  No partial state on store failure (Spec).                         *)
(***************************************************************************)

\* C13: when a deposit or withdraw ends with 500, either both its log append and
\* its balance write have taken effect or neither has: the log holds no entry of
\* such a request whose balance delta was not applied.
C13_NoPartialState ==
    \A r \in Slots :
        (IsMutation(r) /\ pc[r] = "done" /\ resp[r] = 500) =>
            /\ ins[r] = "inserted" => loc[r].written
            /\ ins[r] = "none" => ~loc[r].written

(***************************************************************************)
(* C14.  Reservation decisions against balance mutations (Spec).           *)
(***************************************************************************)

\* The deposits and withdraws on account a whose row is in the log while their
\* balance write has not taken effect.
HalfApplied(a) ==
    {q \in Slots : /\ IsMutation(q) /\ req[q].accountId = a
                   /\ ins[q] = "inserted" /\ ~loc[q].written}

\* The log without the rows appended by the slots of S.
LogWithout(S) ==
    SelectSeq(transactions, LAMBDA t : \A q \in S : t.id # req[q].id)

\* C14: every decision of a reservation check is the rule B - P >= A evaluated on
\* a state in which each deposit or withdraw on the account is fully applied or not
\* applied at all: for some set S of the half-applied ones taken as not applied
\* (their rows left out) and the others taken as fully applied (their deltas
\* added), the decision is B - P >= A on that state.  In particular no check
\* decides with a withdraw in the log (resolving earlier requests) and its
\* decrement missing from the balance.
C14_DecisionsSerializable ==
    [][ \A r \in Slots :
            (chk[r].pc # "resolved" /\ chk'[r].pc = "resolved") =>
                LET a == req[r].accountId
                IN \E S \in SUBSET HalfApplied(a) :
                      chk'[r].data =
                          (Balance(a) + NetOfSlots(HalfApplied(a) \ S, a)
                              - PendingSum(LogWithout(S), a)
                           >= req[r].amount) ]_vars

(***************************************************************************)
(* C15.  A failed check is never an approval (Spec).                       *)
(***************************************************************************)

C16_LateResultDiscarded ==
    /\ [][ \A r \in Slots :
              (IsRequest(r) /\ resp[r] = 402 /\ race[r] = "timeout"
                  /\ chk'[r] # chk[r]) =>
                  /\ resp' = resp
                  /\ transactions' = transactions
                  /\ \A a \in AccountIds :
                        getAccountBalance(accounts', a) = getAccountBalance(accounts, a)
                  /\ pc'[r] = pc[r] /\ race'[r] = race[r] /\ ins'[r] = ins[r] ]_vars
    /\ [][ \A r \in Slots : resp[r] # 0 => resp'[r] = resp[r] ]_vars
    /\ [](\A r \in Slots : (pc[r] = "done") <=> (resp[r] # 0))

\* A request answered 402 by the timeout whose check later completed with an
\* approval.
C16_Witness ==
    \E r \in Slots :
        /\ IsRequest(r) /\ pc[r] = "done" /\ resp[r] = 402 /\ race[r] = "timeout"
        /\ chk[r].pc = "resolved" /\ chk[r].data
        /\ ins[r] = "none"

(***************************************************************************)
(* C17.  The fallback path is not race-free (Spec).                        *)
(***************************************************************************)

\* C17: the fallback takes no lock and writes no reservation, so two concurrent
\* withdraw_requests on one account that are both decided by the fallback before
\* either row is appended observe the same available balance B - P: a step of a
\* fallback check changes neither the log nor the accounts, and each of the two
\* decisions is B - P >= its own amount on that one state, whatever the other
\* decided.  (C17_Witness is the interleaving in which both are approved although
\* B - P covers only one.)
C17_FallbackNotRaceFree ==
    /\ [][ \A r \in Slots :
              (chk[r].via = "fallback" /\ chk'[r] # chk[r]) =>
                  /\ transactions' = transactions
                  /\ accounts' = accounts ]_vars
    /\ [](\A r, q \in Slots :
              (/\ r # q /\ IsRequest(r) /\ IsRequest(q)
               /\ req[r].accountId = req[q].accountId
               /\ chk[r].via = "fallback" /\ chk[q].via = "fallback"
               /\ chk[r].pc = "resolved" /\ chk[q].pc = "resolved"
               /\ ins[r] = "none" /\ ins[q] = "none"
               /\ \A o \in Slots \ {r, q} : pc[o] = "idle")
              => chk[r].data =
                    (Balance(req[r].accountId)
                        - PendingSum(transactions, req[r].accountId)
                     >= req[r].amount))

\* Two withdraw_requests on one account, both decided by the fallback and both
\* answered 201, whose rows are both in the log, while the available balance
\* before them covered each amount but not their sum.
C17_Witness ==
    \E r, q \in Slots :
        /\ r # q /\ IsRequest(r) /\ IsRequest(q)
        /\ req[r].accountId = req[q].accountId
        /\ chk[r].via = "fallback" /\ chk[q].via = "fallback"
        /\ resp[r] = 201 /\ resp[q] = 201
        /\ ins[r] = "inserted" /\ ins[q] = "inserted"
        /\ LET a == req[r].accountId
               available == Balance(a) - PendingSum(LogWithout({r, q}), a)
           IN /\ available >= req[r].amount
              /\ available >= req[q].amount
              /\ available < req[r].amount + req[q].amount

(***************************************************************************)
(* C18.  Accounts never referenced have balance 0 (Spec).                  *)
(***************************************************************************)

\* Account a has been referenced by a deposit or a withdraw: one is in the log, or
\* one has been submitted.
Referenced(a) ==
    \/ \E i \in 1..Len(transactions) :
          transactions[i].account_id = a /\ transactions[i].type \in {"deposit", "withdraw"}
    \/ \E r \in Slots : IsMutation(r) /\ req[r].accountId = a

C19_LogBeforeBalance ==
    /\ [](\A r \in Slots :
              (IsMutation(r)
                  /\ (pc[r] \in {"bal_read", "bal_write", "log_read"} \/ loc[r].written))
                  => (ins[r] # "none" /\ HasId(transactions, req[r].id)))
    /\ [][ \A r \in Slots :
              (IsMutation(r) /\ ~loc[r].written /\ loc'[r].written) =>
                  /\ HasId(transactions, req[r].id)
                  /\ transactions' = transactions ]_vars

\* A withdraw whose entry was appended and whose decrement was then written.
C19_Witness ==
    \E r \in Slots :
        /\ req[r].type = "withdraw" /\ ins[r] = "inserted" /\ loc[r].written
        /\ resp[r] = 200
        /\ HasId(transactions, req[r].id)

(***************************************************************************)
(* C20.  The rpc and the fallback agree on one snapshot (Spec).            *)
(***************************************************************************)

RetryOf(r, q) ==
    /\ q < r /\ IsRequest(q) /\ req[r] = req[q] /\ pc[r] # "idle"
    /\ ins[q] = "inserted" /\ resp[q] = 201
    /\ \E i \in 1..Len(transactions) :
          transactions[i].id = req[q].id /\ Unresolved(transactions, i)

\* C21: resubmitting a withdraw_request whose id is in the log, was approved and is
\* still unresolved changes neither the log nor any balance nor the account's
\* pending amount, and, when its check decides it and no store call fails, it is
\* answered like the first submission: 201.
C21_RetrySafe ==
    /\ [][ \A r, q \in Slots :
              (RetryOf(r, q) /\ Moves(r)) =>
                  /\ transactions' = transactions
                  /\ \A a \in AccountIds :
                        /\ getAccountBalance(accounts', a) = getAccountBalance(accounts, a)
                        /\ PendingSum(transactions', a) = PendingSum(transactions, a) ]_vars
    /\ [](\A r, q \in Slots :
              (RetryOf(r, q) /\ pc[r] = "done" /\ race[r] = "value" /\ resp[r] # 500)
                  => resp[r] = 201)

(***************************************************************************)
(* C22.  Account isolation (Spec).                                         *)
(***************************************************************************)

\* C22: a step of a request on account X (of its handler or of its check) that
\* writes to the store changes,
\* for every other account Y, neither the stored balance of Y nor the pending
\* amount of Y, and therefore not the decision either path would give to a
\* withdraw_request of any amount on Y.
C22_AccountIsolation ==
    [][ \A r \in Slots :
            (Moves(r) /\ <<transactions', accounts'>> # <<transactions, accounts>>) =>
                \A y \in AccountIds \ {req'[r].accountId} :
                    /\ getAccountBalance(accounts', y) = getAccountBalance(accounts, y)
                    /\ v_pending_amount(transactions', y) = v_pending_amount(transactions, y)
                    /\ \A requestedAmount \in Amounts :
                          /\ check_withdraw_request(accounts', transactions', y, requestedAmount)
                               = check_withdraw_request(accounts, transactions, y, requestedAmount)
                          /\ checkAndReserveBalanceFallback(
                                 getAccountBalance(accounts', y),
                                 selectRows(transactions', y, "withdraw_request"),
                                 selectRows(transactions', y, "withdraw"), requestedAmount)
                               = checkAndReserveBalanceFallback(
                                 getAccountBalance(accounts, y),
                                 selectRows(transactions, y, "withdraw_request"),
                                 selectRows(transactions, y, "withdraw"), requestedAmount) ]_vars

\* A deposit on acc2 was applied while acc1 held a balance and a pending request,
\* and a withdraw_request on acc1 was then approved on exactly B - P = A.
C22_Witness ==
    \E r, q \in Slots :
        /\ req[r].type = "deposit" /\ req[r].accountId = "acc2"
        /\ ins[r] = "inserted" /\ loc[r].written /\ resp[r] = 200
        /\ r < q /\ IsRequest(q) /\ req[q].accountId = "acc1"
        /\ resp[q] = 201 /\ ins[q] = "inserted"
        /\ Balance("acc2") > 0
        /\ PendingSum(LogBefore(q), "acc1") > 0
        /\ Balance("acc1") - PendingSum(LogBefore(q), "acc1") = req[q].amount

(***************************************************************************)
(* C23.  The balance is derived from the log (SpecSeq).                    *)
(***************************************************************************)

\* Sum of the logged deposits minus sum of the logged withdraws of account a;
\* withdraw_request rows contribute nothing.
RECURSIVE LogNet(_, _)
LogNet(txs, a) ==
    IF txs = <<>> THEN 0
    ELSE LogNet(Tail(txs), a)
         + (IF Head(txs).account_id # a THEN 0
            ELSE IF Head(txs).type = "deposit" THEN Head(txs).amount
            ELSE IF Head(txs).type = "withdraw" THEN 0 - Head(txs).amount
            ELSE 0)

\* C23: when transactions with pairwise distinct ids are processed one at a time
\* and no store call fails, then whenever every submitted request has completed,
\* each account's stored balance is the sum of its logged deposits minus the sum
\* of its logged withdraws.
C23_BalanceFromLog ==
    (\A r \in Slots :
        /\ pc[r] \in {"idle", "done"}
        /\ ins[r] # "already_exists"
        /\ resp[r] # 500
        /\ chk[r].via = "rpc" /\ chk[r].pc # "rejected")
      => \A a \in AccountIds : Balance(a) = LogNet(transactions, a)

\* A deposit and a withdraw on acc1 both applied, beside a logged withdraw_request
\* of the account.
C23_Witness ==
    /\ \E r, q \in Slots :
          /\ req[r].type = "deposit" /\ req[q].type = "withdraw"
          /\ req[r].accountId = "acc1" /\ req[q].accountId = "acc1"
          /\ ins[r] = "inserted" /\ ins[q] = "inserted"
          /\ resp[r] = 200 /\ resp[q] = 200
    /\ \E i \in 1..Len(transactions) :
          transactions[i].type = "withdraw_request" /\ transactions[i].account_id = "acc1"
    /\ Balance("acc1") = LogNet(transactions, "acc1")
    /\ Balance("acc1") > 0

====
